---- MODULE Spec2Model ----
(***************************************************************************)
(* Model of infercnvpy/tl/_scores.py: the three per-group scores           *)
(* cnv_score, ithgex and ithcna, applied to an in-memory AnnData object.   *)
(*                                                                         *)
(* Numbers.  Matrix entries are integers that stand for tenths (the entry  *)
(* 3 is the float 0.3).  Scores are exact rationals <<num, den>> in lowest *)
(* terms with den > 0; NaN is <<0, 0>>.  Floating-point rounding is not    *)
(* modelled.                                                               *)
(***************************************************************************)
EXTENDS Integers, Sequences, FiniteSets, TLC

\* Largest number of cells (rows of adata) of the generated datasets.
MaxCells == 3

----------------------------------------------------------------------------
\* Rational arithmetic (the value domain of numpy float results).

NaN == <<0, 0>>

IsNaN(a) == a[2] = 0

AbsInt(x) == IF x < 0 THEN -x ELSE x

RECURSIVE GCD(_, _)
GCD(a, b) == IF b = 0 THEN a ELSE GCD(b, a % b)

Rat(num, den) ==
    IF den = 0 THEN NaN
    ELSE LET g == GCD(AbsInt(num), AbsInt(den))
             s == IF den < 0 THEN -1 ELSE 1
         IN  <<(s * num) \div g, (s * den) \div g>>

RAdd(a, b) == IF IsNaN(a) \/ IsNaN(b) THEN NaN
              ELSE Rat(a[1] * b[2] + b[1] * a[2], a[2] * b[2])

RSub(a, b) == IF IsNaN(a) \/ IsNaN(b) THEN NaN
              ELSE Rat(a[1] * b[2] - b[1] * a[2], a[2] * b[2])

RMul(a, b) == IF IsNaN(a) \/ IsNaN(b) THEN NaN
              ELSE Rat(a[1] * b[1], a[2] * b[2])

\* a < b for two numbers that are not NaN
RLess(a, b) == a[1] * b[2] < b[1] * a[2]

\* The exact square root of a perfect square (np.sqrt on the values the
\* datasets below produce; CHOOSE fails on anything else, so an inexact
\* root can never pass unnoticed).
Sqrt(k) == CHOOSE r \in 0..k : r * r = k

\* A sequence given by its elements, evaluated once (TLC would otherwise
\* re-evaluate the element expression at every application).
Arr(f) == f \o <<>>

\* s[1] + ... + s[k]
RECURSIVE SumTo(_, _)
SumTo(s, k) == IF k = 0 THEN 0 ELSE s[k] + SumTo(s, k - 1)

SumSeq(s) == SumTo(s, Len(s))

\* ndarray.flatten of a rows x cols matrix (row-major)
Flatten(m) ==
    IF m = <<>> THEN <<>>
    ELSE LET K == Len(m[1])
         IN  Arr([k \in 1..(Len(m) * K) |->
                    m[((k - 1) \div K) + 1][((k - 1) % K) + 1]])

----------------------------------------------------------------------------
\* pandas / numpy helpers used by the three functions

NoneVal == "None"

\* Series.unique(): the distinct values in order of first appearance
RECURSIVE Unique(_)
Unique(col) ==
    IF col = <<>> THEN <<>>
    ELSE LET init == Unique(SubSeq(col, 1, Len(col) - 1))
             x    == col[Len(col)]
         IN  IF \E i \in 1..Len(init) : init[i] = x THEN init
             ELSE Append(init, x)

\* adata.obs[groupby] == cluster : the boolean mask, as the increasing
\* sequence of the selected row numbers
RECURSIVE MaskRows(_, _)
MaskRows(col, g) ==
    IF col = <<>> THEN <<>>
    ELSE LET init == MaskRows(SubSeq(col, 1, Len(col) - 1), g)
         IN  IF col[Len(col)] = g THEN Append(init, Len(col)) ELSE init

\* M[mask, :] : a new matrix holding the selected rows, in row order
SelectRows(M, rows) == Arr([k \in 1..Len(rows) |-> M[rows[k]]])

\* np.abs left out: the entries as they are
AbsMtx_signed(M) == M

\* np.abs, elementwise
AbsMtx(M) ==
    Arr([i \in 1..Len(M) |-> Arr([j \in 1..Len(M[i]) |-> AbsInt(M[i][j])])])

\* np.mean over all entries of a matrix of tenths
MeanMtx(M) ==
    LET flat == Flatten(M)
    IN  Rat(SumSeq(flat), 10 * Len(flat))

\* Python dict: a function whose domain is the set of keys
EmptyDict == [k \in {} |-> NaN]

DictPut(d, key, v) ==
    [k \in (DOMAIN d) \cup {key} |-> IF k = key THEN v ELSE d[k]]

\* the table rebuilt from the grouping columns and the new column alone
SetColumn_rebuilt(table, key, arr) ==
    [c \in ((DOMAIN table) \cap {"cnv_leiden", "sample"}) \cup {key} |->
        IF c = key THEN arr ELSE table[c]]

\* adata.obs[key] = array : add or replace one column, keep all the others
SetColumn(table, key, arr) ==
    [c \in (DOMAIN table) \cup {key} |-> IF c = key THEN arr ELSE table[c]]

----------------------------------------------------------------------------
\* np.corrcoef(X, rowvar=True)

\* Row r minus its mean, times the number K of columns (kept integral).
CenterRow(r) ==
    LET total == SumSeq(r)
    IN  Arr([k \in 1..Len(r) |-> Len(r) * r[k] - total])

DotRows(a, b) == SumSeq(Arr([k \in 1..Len(a) |-> a[k] * b[k]]))

\* np.cov: entry (i,j) is the covariance of rows i and j, here times the
\* common factor K*K*(K-1), which cancels in the correlation.
Cov(X) ==
    LET C == Arr([i \in 1..Len(X) |-> CenterRow(X[i])])
    IN  Arr([i \in 1..Len(X) |->
                Arr([j \in 1..Len(X) |-> DotRows(C[i], C[j])])])

\* c / stddev[:, None] / stddev[None, :] with stddev = sqrt(diag(c)).
\* A row of zero variance gives 0/0 = nan in its row and its column.
CorrCoef(X) ==
    LET c == Cov(X)
        d == Arr([i \in 1..Len(X) |-> c[i][i]])
    IN  Arr([i \in 1..Len(X) |->
                Arr([j \in 1..Len(X) |->
                        IF d[i] = 0 \/ d[j] = 0 THEN NaN
                        ELSE Rat(c[i][j], Sqrt(d[i] * d[j]))])])

----------------------------------------------------------------------------
\* np.percentile(a, q), default linear interpolation, on the flattened array

RECURSIVE InsertSorted(_, _)
InsertSorted(s, x) ==
    IF s = <<>> THEN <<x>>
    ELSE IF RLess(x, Head(s)) THEN <<x>> \o s
    ELSE <<Head(s)>> \o InsertSorted(Tail(s), x)

RECURSIVE SortAsc(_)
SortAsc(s) == IF s = <<>> THEN <<>>
              ELSE InsertSorted(SortAsc(Tail(s)), Head(s))

\* the q-th percentile of an ascending array (virtual index (N-1)*q/100,
\* linear interpolation between its two neighbours)
Lerp(srt, q) ==
    LET N    == Len(srt)
        pos  == (N - 1) * q           \* virtual index, times 100
        lo   == pos \div 100
        frac == Rat(pos % 100, 100)
        hi   == IF lo + 1 < N THEN lo + 1 ELSE lo
    IN  RAdd(srt[lo + 1], RMul(frac, RSub(srt[hi + 1], srt[lo + 1])))

\* the percentiles of the upper triangle only (each pair of cells once)
Percentile_triu(a, qs) ==
    LET tri[i \in 0..Len(a)] ==
            IF i = 0 THEN <<>> ELSE tri[i - 1] \o SubSeq(a[i], i, Len(a))
        flat == tri[Len(a)]
    IN  IF \E i \in 1..Len(flat) : IsNaN(flat[i])
        THEN Arr([k \in 1..Len(qs) |-> NaN])
        ELSE LET srt == SortAsc(flat)
             IN  Arr([k \in 1..Len(qs) |-> Lerp(srt, qs[k])])

\* np.percentile(a, qs): one result per q; nan as soon as a holds a nan
Percentile(a, qs) ==
    LET flat == Flatten(a)
    IN  IF \E i \in 1..Len(flat) : IsNaN(flat[i])
        THEN Arr([k \in 1..Len(qs) |-> NaN])
        ELSE LET srt == SortAsc(flat)
             IN  Arr([k \in 1..Len(qs) |-> Lerp(srt, qs[k])])

\* q75, q25 = np.percentile(pcorr, [75, 25]);  q75 - q25
IQR(pcorr) ==
    LET q == Percentile(pcorr, <<75, 25>>)
    IN  RSub(q[1], q[2])

----------------------------------------------------------------------------
\* cnv_score

\* "X_" + use_rep
RepKey(use_rep) == IF use_rep = "cnv" THEN "X_cnv" ELSE "X_" \o use_rep

\* the dict comprehension of cnv_score
cluster_score(M, col) ==
    LET groups == Unique(col)
    IN  [c \in {groups[k] : k \in 1..Len(groups)} |->
            MeanMtx(AbsMtx(SelectRows(M, MaskRows(col, c))))]

\* np.array([cluster_score[c] for c in adata.obs[groupby]])
score_array(scores, col) == Arr([i \in 1..Len(col) |-> scores[col[i]]])

----------------------------------------------------------------------------
\* ithgex / ithcna

\* The first loop of ithgex and ithcna over groups[k..]: groups of at most
\* one cell are skipped, every other group gets the IQR of its cell-by-cell
\* correlation matrix.
RECURSIVE ith_scores(_, _, _, _, _)
ith_scores(M, col, groups, k, acc) ==
    IF k > Len(groups) THEN acc
    ELSE LET Xg == SelectRows(M, MaskRows(col, groups[k]))
         IN  IF Len(Xg) <= 1
             THEN ith_scores(M, col, groups, k + 1, acc)
             ELSE ith_scores(M, col, groups, k + 1,
                             DictPut(acc, groups[k], IQR(CorrCoef(Xg))))

\* ithgex_obs[adata.obs[groupby] == group] = ithgex[group]
MaskAssign(arr, col, g, v) ==
    Arr([i \in 1..Len(arr) |-> IF col[i] = g THEN v ELSE arr[i]])

\* The second loop of ithgex and ithcna over groups[k..]: a group missing
\* from the dict raises KeyError, and the array is dropped.
RECURSIVE ith_obs(_, _, _, _, _)
ith_obs(arr, col, groups, k, scores) ==
    IF k > Len(groups) THEN [exc |-> "none", arr |-> arr]
    ELSE IF groups[k] \notin DOMAIN scores
         THEN [exc |-> "KeyError", arr |-> <<>>]
         ELSE ith_obs(MaskAssign(arr, col, groups[k], scores[groups[k]]),
                      col, groups, k + 1, scores)

----------------------------------------------------------------------------
\* The AnnData object and the last call made on it

VARIABLES
    X,       \* adata.X           : cells x genes
    obsm,    \* adata.obsm        : name -> cells x features matrix
    obs,     \* adata.obs         : column name -> per-cell array
    last,    \* the arguments of the last call (fn = "none" before any)
    ret,     \* its outcome: returned None, returned a dict, or raised
    prev     \* what came before the last call: "same" (a call with the same
             \* arguments), "ithgex" (an ithgex call that stored its column)
             \* or "none" (anything else, or nothing)

vars == <<X, obsm, obs, last, ret, prev>>

n_obs == Len(X)

GroupCols == {"cnv_leiden", "sample"}
Labels    == {"A", "B"}

\* Cell profiles the generated datasets are built from: row p of each
\* table is the expression row and the X_cnv row of a cell of profile p.
\* Profile 2 has a constant X_cnv row and profile 3 a constant expression
\* row (zero variance).
XRows      == << <<1, 0, 0>>, <<0, 1, 0>>, <<0, 0, 0>> >>
CnvRows    == << <<1, -2>>,   <<10, 10>>,  <<-2, 1>> >>
\* the cluster tl.leiden gives to a cell of profile p
LeidenOf   == << "0", "1", "2" >>

\* the dataset whose cells have the given profiles and sample labels
Dataset(prof, sample, hasLeiden) ==
    LET n == Len(prof)
    IN  [ X      |-> [i \in 1..n |-> XRows[prof[i]]],
          obsm   |-> [r \in {"X_cnv"} |-> [i \in 1..n |-> CnvRows[prof[i]]]],
          obs    |-> IF hasLeiden
                     THEN [c \in GroupCols |->
                             IF c = "sample" THEN sample
                             ELSE [i \in 1..n |-> LeidenOf[prof[i]]]]
                     ELSE [c \in {"sample"} |-> sample] ]

\* The 4-cell scenario of the specification: clusters [A,A,B,B] and X_cnv
\* rows [[0.1,-0.2],[0.3,-0.1],[1,1],[1,1]].
Scenario ==
    [ X      |-> << <<1, 0, 0>>, <<0, 1, 0>>, <<0, 1, 1>>, <<1, 1, 0>> >>,
      obsm   |-> [r \in {"X_cnv"} |->
                    << <<1, -2>>, <<3, -1>>, <<10, 10>>, <<10, 10>> >>],
      obs    |-> [c \in GroupCols |->
                    IF c = "cnv_leiden" THEN <<"A", "A", "B", "B">>
                    ELSE <<"A", "B", "B", "B">>] ]

NoCall == [fn |-> "none", groupby |-> NoneVal, obs_key |-> NoneVal,
           layer |-> NoneVal, key_added |-> NoneVal, inplace |-> FALSE]

Returned(kind, d) == [kind |-> kind, exc |-> "none", val |-> d]
Raised(exc)       == [kind |-> "raise", exc |-> exc, val |-> EmptyDict]

\* Cells with the same profile and the same label are interchangeable, so
\* one dataset is generated per multiset of (profile, label) cells: its
\* cells in non-decreasing order of profile, then of label.
CellLeq(p1, l1, p2, l2) == p1 < p2 \/ (p1 = p2 /\ (l1 = l2 \/ l1 = "A"))

Cells(n) ==
    { c \in [1..n -> (1..Len(CnvRows)) \X Labels] :
        \A i \in 1..(n - 1) :
            CellLeq(c[i][1], c[i][2], c[i + 1][1], c[i + 1][2]) }

Datasets ==
    {Scenario} \cup
    UNION { { Dataset([i \in 1..n |-> c[i][1]], [i \in 1..n |-> c[i][2]],
                      hasLeiden) :
                c \in Cells(n), hasLeiden \in BOOLEAN } : n \in 1..MaxCells }

Init ==
    /\ \E ad \in Datasets :
          /\ X = ad.X
          /\ obsm = ad.obsm
          /\ obs = ad.obs
    /\ last = NoCall
    /\ ret = Returned("init", EmptyDict)
    /\ prev = "none"

----------------------------------------------------------------------------
\* The three functions

\* ithcna with a default column of its own
key_added_default_own(fn) ==
    IF fn = "cnv_score" THEN "cnv_score"
    ELSE IF fn = "ithcna" THEN "ithcna" ELSE "ithgex"

\* default of key_added of each function
key_added_default(fn) == IF fn = "cnv_score" THEN "cnv_score" ELSE "ithgex"

\* the column a call writes: its key_added argument, or the default
KeyOf(call) == IF call.key_added = NoneVal THEN key_added_default(call.fn)
               ELSE call.key_added

\* the grouping column a call uses (obs_key overrides groupby in cnv_score)
GroupbyOf(call) == IF call.obs_key # NoneVal THEN call.obs_key
                   ELSE call.groupby

\* the check for the default column left out
leiden_missing_never(table, groupby) == FALSE

\* groupby not in adata.obs.columns and groupby == "cnv_leiden"
leiden_missing(table, groupby) ==
    groupby \notin DOMAIN table /\ groupby = "cnv_leiden"

\* _choose_mtx_rep(adata, use_raw, layer) of infercnvpy/_util.py, for the
\* calls modelled here (use_raw=None, layer=None, adata without .raw and
\* without layers): the primary matrix adata.X.
_choose_mtx_rep(use_raw, layer) == X

\* the history recorded when `call` is made in the current state
PrevOf(call) ==
    IF call = last THEN "same"
    ELSE IF last.fn = "ithgex" /\ last.inplace /\ ret.kind = "None"
         THEN "ithgex"
         ELSE "none"

\* np.empty(n): n entries that hold whatever the memory held.  An entry is
\* Uninit until it is assigned; an entry still Uninit when the array is read
\* has one of the values of EmptyVals, whichever.
Uninit == <<0, -1>>

EmptyVals == { <<0, 1>>, <<-7, 3>> }

np_empty(n) == Arr([i \in 1..n |-> Uninit])

\* the contents an array can be read with
Contents(arr) ==
    IF \A i \in 1..Len(arr) : arr[i] # Uninit THEN {arr}
    ELSE { Arr([i \in 1..Len(arr) |->
                  IF arr[i] = Uninit THEN junk[i] ELSE arr[i]]) :
             junk \in [1..Len(arr) -> EmptyVals] }

\* cnv_score with `adata.obs[groupby] = cluster` in place of the comparison:
\* the scores are those of the labels found, and every cell is left with the
\* label of the last cell
cnv_score_relabel(groupby, use_rep, key_added, inplace, obs_key) ==
    LET call == [fn |-> "cnv_score", groupby |-> groupby, obs_key |-> obs_key,
                 layer |-> NoneVal, key_added |-> key_added,
                 inplace |-> inplace]
        g    == GroupbyOf(call)
    IN  /\ last' = call
        /\ prev' = PrevOf(call)
        /\ UNCHANGED <<X, obsm>>
        /\ IF g \notin DOMAIN obs
           THEN ret' = Raised("KeyError") /\ UNCHANGED obs
           ELSE /\ ret' = IF inplace THEN Returned("None", EmptyDict)
                          ELSE Returned("dict",
                                        cluster_score(obsm["X_cnv"], obs[g]))
                /\ obs' = SetColumn(obs, g,
                             Arr([i \in 1..n_obs |-> obs[g][n_obs]]))

cnv_score(groupby, use_rep, key_added, inplace, obs_key) ==
    LET call == [fn |-> "cnv_score", groupby |-> groupby, obs_key |-> obs_key,
                 layer |-> NoneVal, key_added |-> key_added,
                 inplace |-> inplace]
        g    == GroupbyOf(call)
    IN  /\ last' = call
        /\ prev' = PrevOf(call)
        /\ UNCHANGED <<X, obsm>>
        /\ IF leiden_missing(obs, g)
           THEN ret' = Raised("ValueError") /\ UNCHANGED obs
           ELSE IF g \notin DOMAIN obs \/ RepKey(use_rep) \notin DOMAIN obsm
           THEN ret' = Raised("KeyError") /\ UNCHANGED obs
           ELSE LET scores == cluster_score(obsm[RepKey(use_rep)], obs[g])
                IN  IF inplace
                    THEN /\ obs' = SetColumn(obs, KeyOf(call),
                                             score_array(scores, obs[g]))
                         /\ ret' = Returned("None", EmptyDict)
                    ELSE /\ ret' = Returned("dict", scores)
                         /\ UNCHANGED obs

\* the body shared by ithgex and ithcna, on the chosen matrix M
ith_call(call, M) ==
    /\ last' = call
    /\ prev' = PrevOf(call)
    /\ UNCHANGED <<X, obsm>>
    /\ LET col    == obs[call.groupby]
           groups == Unique(col)
           scores == ith_scores(M, col, groups, 1, EmptyDict)
       IN  IF call.inplace
           THEN LET r == ith_obs(np_empty(n_obs), col, groups, 1, scores)
                IN  IF r.exc # "none"
                    THEN ret' = Raised(r.exc) /\ UNCHANGED obs
                    ELSE /\ \E arr \in Contents(r.arr) :
                                obs' = SetColumn(obs, KeyOf(call), arr)
                         /\ ret' = Returned("None", EmptyDict)
           ELSE /\ ret' = Returned("dict", scores)
                /\ UNCHANGED obs

ithgex(groupby, use_raw, layer, inplace, key_added) ==
    LET call == [fn |-> "ithgex", groupby |-> groupby, obs_key |-> NoneVal,
                 layer |-> layer, key_added |-> key_added,
                 inplace |-> inplace]
    IN  IF groupby \notin DOMAIN obs
        THEN /\ last' = call
             /\ prev' = PrevOf(call)
             /\ ret' = Raised("KeyError")
             /\ UNCHANGED <<X, obsm, obs>>
        ELSE ith_call(call, _choose_mtx_rep(use_raw, layer))

ithcna(groupby, use_rep, key_added, inplace) ==
    LET call == [fn |-> "ithcna", groupby |-> groupby, obs_key |-> NoneVal,
                 layer |-> NoneVal, key_added |-> key_added,
                 inplace |-> inplace]
    IN  IF groupby \notin DOMAIN obs \/ use_rep \notin DOMAIN obsm
        THEN /\ last' = call
             /\ prev' = PrevOf(call)
             /\ ret' = Raised("KeyError")
             /\ UNCHANGED <<X, obsm, obs>>
        ELSE ith_call(call, obsm[use_rep])

\* key_added is left out (NoneVal): the default applies
KeyArgs(fn) == {NoneVal}

CallCnvScore ==
    \E groupby \in GroupCols, obs_key \in {NoneVal, "sample"},
       key_added \in KeyArgs("cnv_score"), inplace \in BOOLEAN :
        \* a caller of the deprecated alias leaves groupby at its default
        /\ obs_key # NoneVal => groupby = "cnv_leiden"
        /\ cnv_score(groupby, "cnv", key_added, inplace, obs_key)

CallIthgex ==
    \E groupby \in GroupCols,
       key_added \in KeyArgs("ithgex"), inplace \in BOOLEAN :
        ithgex(groupby, NoneVal, NoneVal, inplace, key_added)

CallIthcna ==
    \E groupby \in GroupCols,
       key_added \in KeyArgs("ithcna"), inplace \in BOOLEAN :
        ithcna(groupby, "X_cnv", key_added, inplace)

Next == CallCnvScore \/ CallIthgex \/ CallIthcna

Spec == Init /\ [][Next]_vars

----------------------------------------------------------------------------
\* Reference definitions the properties are stated with.  They are written
\* from the mathematical meaning of the scores (sets, counting), not from
\* the steps of the code.

\* the cells whose label is g, and the labels that occur
CellsOf(col, g) == { i \in 1..Len(col) : col[i] = g }
LabelsIn(col)   == { col[i] : i \in 1..Len(col) }

\* the sum of f over the finite set S
RECURSIVE SetSum(_, _)
SetSum(S, f) ==
    IF S = {} THEN 0
    ELSE LET x == CHOOSE y \in S : TRUE
         IN  f[x] + SetSum(S \ {x}, f)

\* mean of |M[i][j]| over the rows i in S (entries are tenths)
RefMeanAbs(M, S) ==
    LET P == S \X (1..Len(M[1]))
    IN  Rat(SetSum(P, [p \in P |-> AbsInt(M[p[1]][p[2]])]),
            10 * Cardinality(P))

\* Pearson correlation of two rows, by the sums formula
\*   (K Sxy - Sx Sy) / sqrt((K Sxx - Sx^2) (K Syy - Sy^2))
RefCorr(x, y) ==
    LET Ks  == 1..Len(x)
        K   == Len(x)
        Sx  == SetSum(Ks, [k \in Ks |-> x[k]])
        Sy  == SetSum(Ks, [k \in Ks |-> y[k]])
        Sxy == SetSum(Ks, [k \in Ks |-> x[k] * y[k]])
        Sxx == SetSum(Ks, [k \in Ks |-> x[k] * x[k]])
        Syy == SetSum(Ks, [k \in Ks |-> y[k] * y[k]])
        vx  == K * Sxx - Sx * Sx
        vy  == K * Syy - Sy * Sy
    IN  IF vx = 0 \/ vy = 0 THEN NaN
        ELSE Rat(K * Sxy - Sx * Sy, Sqrt(vx * vy))

\* the k-th smallest (k = 0, 1, ...) of the values of E, by counting
RefOrderStat(E, k) ==
    CHOOSE v \in { E[p] : p \in DOMAIN E } :
        /\ Cardinality({ p \in DOMAIN E : RLess(E[p], v) }) <= k
        /\ k < Cardinality({ p \in DOMAIN E : ~RLess(v, E[p]) })

\* the q-th percentile of the values of E: the value at the virtual index
\* (N-1)*q/100 of the ascending order, linearly interpolated
RefPercentile(E, q) ==
    LET N  == Cardinality(DOMAIN E)
        lo == ((N - 1) * q) \div 100
        fr == Rat(((N - 1) * q) % 100, 100)
        a  == RefOrderStat(E, lo)
        b  == IF lo + 1 < N THEN RefOrderStat(E, lo + 1) ELSE a
    IN  RAdd(a, RMul(fr, RSub(b, a)))

\* 75th minus 25th percentile over all |S|*|S| correlations of the rows in
\* S: every ordered pair (i, j), i = j included.  nan when a correlation is.
RefIQR(M, S) ==
    LET E == [p \in S \X S |-> RefCorr(M[p[1]], M[p[2]])]
    IN  IF \E p \in S \X S : IsNaN(E[p]) THEN NaN
        ELSE RSub(RefPercentile(E, 75), RefPercentile(E, 25))

\* the matrix a call of ithgex or ithcna works on
IthMatrix(call) == IF call.fn = "ithgex" THEN X ELSE obsm["X_cnv"]

\* the score of group g under the last call
RefScore(call, g) ==
    LET S == CellsOf(obs[GroupbyOf(call)], g)
    IN  IF call.fn = "cnv_score" THEN RefMeanAbs(obsm["X_cnv"], S)
        ELSE RefIQR(IthMatrix(call), S)

\* the last call stored its column / returned its dict
Stored   == last.fn # "none" /\ last.inplace /\ ret.kind = "None"
GaveDict == last.fn # "none" /\ ~last.inplace /\ ret.kind = "dict"
LastCol  == obs[GroupbyOf(last)]
LastKey  == obs[KeyOf(last)]
IsIth(call) == call.fn \in {"ithgex", "ithcna"}

----------------------------------------------------------------------------
\* Properties

\* C1: after a call of cnv_score, ithgex or ithcna with inplace=True on a
\* dataset whose groupby column exists, any two cells with the same label in
\* that column hold the same value in the key_added column.
C1_SameGroupSameScore ==
    (/\ last.fn # "none" /\ last.inplace
     /\ GroupbyOf(last) \in DOMAIN obs
     /\ KeyOf(last) \in DOMAIN obs)
    => \A i, j \in 1..n_obs :
          LastCol[i] = LastCol[j] => LastKey[i] = LastKey[j]

C3_IQROfFullMatrix ==
    (IsIth(last) /\ ret.kind # "raise") =>
        \A g \in LabelsIn(LastCol) :
            LET S == CellsOf(LastCol, g)
            IN  Cardinality(S) >= 2 =>
                  /\ GaveDict => /\ g \in DOMAIN ret.val
                                 /\ ret.val[g] = RefIQR(IthMatrix(last), S)
                  /\ Stored => \A i \in S :
                                 LastKey[i] = RefIQR(IthMatrix(last), S)

\* ithgex returned 3/2 for a group of 3 cells (correlations 1 and -1/2)
C3_Witness ==
    /\ GaveDict /\ last.fn = "ithgex"
    /\ \E g \in DOMAIN ret.val :
          /\ Cardinality(CellsOf(LastCol, g)) = 3
          /\ ret.val[g] = <<3, 2>>

\* C4: cnv_score with the default grouping column cnv_leiden absent from
\* adata.obs raises ValueError and leaves the dataset as it was, whatever
\* inplace is.
C4_MissingLeidenRaises ==
    [][ (/\ last'.fn = "cnv_score"
         /\ GroupbyOf(last') = "cnv_leiden"
         /\ "cnv_leiden" \notin DOMAIN obs)
        => (/\ ret' = Raised("ValueError")
            /\ obs' = obs /\ X' = X /\ obsm' = obsm) ]_vars

\* cnv_score(inplace=True) raised ValueError and no score column exists
C4_Witness ==
    /\ last.fn = "cnv_score" /\ last.inplace
    /\ GroupbyOf(last) = "cnv_leiden"
    /\ "cnv_leiden" \notin DOMAIN obs
    /\ ret = Raised("ValueError")
    /\ DOMAIN obs = {"sample"}

\* C5: ithgex / ithcna with inplace=True on a dataset with a one-cell group
\* complete without an error and store, for every cell of every group of at
\* least 2 cells, the score of its group.
C5_SingletonSkipped ==
    (/\ IsIth(last) /\ last.inplace
     /\ last.groupby \in DOMAIN obs
     /\ \E g \in LabelsIn(LastCol) : Cardinality(CellsOf(LastCol, g)) = 1)
    => /\ ret.kind = "None"
       /\ KeyOf(last) \in DOMAIN obs
       /\ \A g \in LabelsIn(LastCol) :
             Cardinality(CellsOf(LastCol, g)) >= 2 =>
                \A i \in CellsOf(LastCol, g) :
                    LastKey[i] = RefIQR(IthMatrix(last), CellsOf(LastCol, g))

\* C6: after a call with inplace=True on a dataset whose groupby column
\* exists, the key_added column has one entry per cell, in cell order, and
\* cell i's entry is the score of the group cell i's label names.
C6_ColumnFollowsGroups ==
    (last.fn # "none" /\ last.inplace /\ GroupbyOf(last) \in DOMAIN obs)
    => /\ KeyOf(last) \in DOMAIN obs
       /\ DOMAIN LastKey = 1..n_obs
       /\ \A i \in 1..n_obs : LastKey[i] = RefScore(last, LastCol[i])

\* C7: a call with inplace=False made a second time in a row with the same
\* arguments returns the mapping the first call returned.
C7_SecondCallSameDict ==
    [][ (last' = last /\ ~last.inplace /\ ret.kind = "dict")
        => ret' = ret ]_vars

\* the same inplace=False call of ithcna was made twice and returned a
\* non-empty dict
C7_Witness ==
    /\ prev = "same" /\ GaveDict /\ last.fn = "ithcna"
    /\ DOMAIN ret.val # {}

\* C8: inplace selects the output.  A call with inplace=True returns no
\* dict, and changes nothing of adata but the key_added column of adata.obs,
\* which exists once the call has returned; a call with inplace=False
\* changes nothing of adata, and what it returns is the dict.  The matrices
\* and the label columns never change.
C8_InplaceSelectsOutput ==
    [][ /\ X' = X /\ obsm' = obsm
        /\ IF last'.inplace
           THEN /\ ret'.kind # "dict" /\ ret'.val = EmptyDict
                /\ ret'.kind = "None" => KeyOf(last') \in DOMAIN obs'
                /\ DOMAIN obs \subseteq DOMAIN obs'
                /\ DOMAIN obs' \subseteq (DOMAIN obs) \cup {KeyOf(last')}
                /\ \A c \in (DOMAIN obs) \ {KeyOf(last')} : obs'[c] = obs[c]
           ELSE /\ ret'.kind # "None"
                /\ obs' = obs ]_vars

\* an inplace call stored its column next to the other score column
C8_Witness ==
    /\ Stored
    /\ DOMAIN obs = {"cnv_leiden", "sample", "cnv_score", "ithgex"}

\* C9: the dict returned with inplace=False has exactly the labels of the
\* groupby column as its keys.
C9_DictHasEveryGroup ==
    GaveDict => DOMAIN ret.val = LabelsIn(LastCol)

\* C10: ithcna stores under "ithgex" by default.  After ithgex(inplace=True)
\* and then ithcna(inplace=True, key_added left out) on groups of at least 2
\* cells, the "ithgex" column holds the ithcna scores and there is no
\* "ithcna" column; and whenever a call stores under the key of an earlier
\* ithgex column, the column is that call's scores throughout.
C10_IthcnaReplacesIthgex ==
    /\ (/\ prev = "ithgex" /\ last.fn = "ithcna" /\ last.inplace
        /\ last.key_added = NoneVal
        /\ last.groupby \in DOMAIN obs
        /\ \A g \in LabelsIn(LastCol) : Cardinality(CellsOf(LastCol, g)) >= 2)
       => /\ ret.kind = "None"
          /\ "ithgex" \in DOMAIN obs
          /\ "ithcna" \notin DOMAIN obs
          /\ \A i \in 1..n_obs :
                obs["ithgex"][i] =
                    RefIQR(obsm["X_cnv"], CellsOf(LastCol, LastCol[i]))
    /\ (prev = "ithgex" /\ Stored /\ KeyOf(last) = "ithgex")
       => \A i \in 1..n_obs : obs["ithgex"][i] = RefScore(last, LastCol[i])

\* ithcna stored over the column of the ithgex call before it, and some cell
\* now holds a score that is not the expression-based one of its group
C10_Witness ==
    /\ prev = "ithgex" /\ last.fn = "ithcna" /\ Stored
    /\ last.key_added = NoneVal
    /\ \E i \in 1..n_obs :
          obs["ithgex"][i] # RefIQR(X, CellsOf(LastCol, LastCol[i]))

====
